---------------------------- MODULE Spec2Model ----------------------------
(***************************************************************************)
(* A model of tree/ntupleutil/v7/src/RNTupleImporter.cxx: the importer's   *)
(* factory functions, schema preparation, the per-record import loop and   *)
(* the default progress callback.                                          *)
(*                                                                         *)
(* Conventions.  Indices stored in the state are 0-based as in the C++     *)
(* (fImportBranchIdx, fImportFieldIdx, fNum, the loop variables i and l);  *)
(* a sequence s is read at s[idx + 1].  Memory buffers are sequences of    *)
(* bytes.  Field types are kept structured ([kind, base, n]) instead of    *)
(* as the type strings RFieldBase::Create parses.                          *)
(***************************************************************************)
EXTENDS Integers, Sequences, FiniteSets, TLC

\* ------------------------------------------------------------- bounds
\* Largest number of entries of a source tree.
MaxT == 3
\* Largest value a count leaf takes (its TLeaf::GetMaximum()).
MaxLen == 3
\* Import() invocations on one importer.
MaxImports == 2
\* Calls of the progress callback in the callback-only specification.
MaxCalls == 4

\* ------------------------------------------------- the default callback
\* RDefaultProgressCallback::gUpdateFrequencyBytes
gUpdateFrequencyBytes == 50 * 1000 * 1000

\* RDefaultProgressCallback::Call: [print, next] for a callback whose
\* fNbytesNext is `next`, called with nbytesWritten.
Call(next, nbytesWritten) ==
  IF nbytesWritten < next
    THEN [print |-> FALSE, next |-> next]
    ELSE [print |-> TRUE, next |-> next + gUpdateFrequencyBytes]

\* ------------------------------------------------------ the source tree
NoLeaf == ""
NoError == ""

\* sizeof(void *)
PtrSize == 8

\* The type names RFieldBase::Create resolves, with GetValueSize().
BaseSize(base) ==
  CASE base = "Char_t" -> 1
    [] base = "Short_t" -> 2
    [] base = "Int_t" -> 4
    [] base = "std::string" -> 32
    [] base = "Event" -> 16
    [] OTHER -> 0

KnownBases == {"Char_t", "Short_t", "Int_t", "std::string", "Event"}

\* Detail::RFieldBase::GetValueSize() of a field of type ty.
ValueSize(ty) ==
  IF ty.kind = "array" THEN ty.n * BaseSize(ty.base) ELSE BaseSize(ty.base)

\* A TLeaf as PrepareSchema reads it: IsA(), IsRange(), GetLeafCounter()
\* (counter, countval), GetTypeName(), GetMaximum(), GetOffset().
Leaf(name, cls, isRange, counter, countval, typeName, maximum, offset) ==
  [name |-> name, cls |-> cls, isRange |-> isRange, counter |-> counter,
   countval |-> countval, typeName |-> typeName, maximum |-> maximum,
   offset |-> offset]

\* A TBranch: GetName(), GetListOfLeaves(), GetClassName(), and whether
\* TClass::GetClass finds the class.
Branch(name, leaves, className, classLoadable) ==
  [name |-> name, leaves |-> leaves, className |-> className,
   classLoadable |-> classLoadable]

ScalarBranch(name, typeName) ==
  Branch(name, <<Leaf(name, "TLeafI", FALSE, NoLeaf, 1, typeName, 0, 0)>>, "", TRUE)

CountBranch(name, maximum) ==
  Branch(name, <<Leaf(name, "TLeafI", TRUE, NoLeaf, 1, "Int_t", maximum, 0)>>, "", TRUE)

ArrayBranch(name, counter, typeName) ==
  Branch(name, <<Leaf(name, "TLeafI", FALSE, counter, 1, typeName, 0, 0)>>, "", TRUE)

FixedBranch(name, typeName, n) ==
  Branch(name, <<Leaf(name, "TLeafI", FALSE, NoLeaf, n, typeName, 0, 0)>>, "", TRUE)

CStringBranch(name, maximum) ==
  Branch(name, <<Leaf(name, "TLeafC", FALSE, NoLeaf, 1, "Char_t", maximum, 0)>>, "", TRUE)

ClassBranch(name, className, loadable) ==
  Branch(name, <<Leaf(name, "TLeafElement", FALSE, NoLeaf, 1, className, 0, 0)>>,
         className, loadable)

ObjectBranch(name) ==
  Branch(name, <<Leaf(name, "TLeafObject", FALSE, NoLeaf, 1, "Event", 0, 0)>>, "Event", TRUE)

\* The branch lists of the source trees explored.  A count leaf's branch
\* precedes the arrays it counts (TTree::Branch resolves the counter when
\* the array branch is created) and its GetMaximum() bounds its values.
Trees ==
  { <<ScalarBranch("x", "Int_t")>>,
    <<CountBranch("n", MaxLen), ArrayBranch("a", "n", "Short_t")>>,
    <<ScalarBranch("x", "Int_t"), CountBranch("n", MaxLen),
      ArrayBranch("a", "n", "Int_t"), ArrayBranch("b", "n", "Char_t"),
      CStringBranch("s", 3)>>,
    <<CountBranch("n", MaxLen), ArrayBranch("a", "n", "Short_t"),
      ArrayBranch("x", "n", "Int_t"),
      CountBranch("m", 1), ArrayBranch("b", "m", "Char_t")>>,
    <<CStringBranch("s", 3), FixedBranch("f", "Short_t", 2),
      ClassBranch("e", "Event", TRUE),
      Branch("p", <<Leaf("px", "TLeafI", FALSE, NoLeaf, 1, "Int_t", 0, 0),
                    Leaf("py", "TLeafI", FALSE, NoLeaf, 1, "Short_t", 0, 4)>>, "", TRUE)>>,
    \* unsupported: a class leaf in a leaf list
    <<ScalarBranch("x", "Int_t"),
      Branch("p", <<Leaf("e", "TLeafElement", FALSE, NoLeaf, 1, "Event", 0, 0),
                    Leaf("py", "TLeafI", FALSE, NoLeaf, 1, "Int_t", 0, 8)>>, "Event", TRUE)>>,
    \* unsupported: a count leaf in a leaf list
    <<Branch("p", <<Leaf("n", "TLeafI", TRUE, NoLeaf, 1, "Int_t", MaxLen, 0),
                    Leaf("py", "TLeafI", FALSE, NoLeaf, 1, "Int_t", 0, 4)>>, "", TRUE)>>,
    \* unsupported: a TObject leaf, after a count-leaf collection was built
    <<CountBranch("n", MaxLen), ArrayBranch("a", "n", "Short_t"), ObjectBranch("o")>>,
    \* a leaf type no field can be created for
    <<CStringBranch("s", 3), ScalarBranch("u", "Unknown_t")>>,
    \* a class TClass::GetClass cannot load
    <<ScalarBranch("x", "Int_t"), ClassBranch("e", "Event", FALSE)>> }

\* std::map iterates fLeafCountCollections in the order of its keys.
NameOrder == <<"a", "b", "e", "f", "m", "n", "o", "p", "s", "u", "x">>

NameRank(name) == CHOOSE k \in 1..Len(NameOrder) : NameOrder[k] = name

RECURSIVE SortedNames(_)
SortedNames(S) ==
  IF S = {} THEN <<>>
  ELSE LET first == CHOOSE x \in S : \A y \in S : NameRank(x) <= NameRank(y)
       IN <<first>> \o SortedNames(S \ {first})

Zeros(n) == [j \in 1..n |-> 0]


\* --------------------------------------------------- schema preparation
\* The importer's schema members: fImportBranches, fImportFields,
\* fLeafCountCollections, fImportTransformations, fModel, fEntry; err is
\* the error of the RResult<void> PrepareSchema returns (NoError: success).
NullPtr == [kind |-> "null", idx |-> 0]

\* RNTupleImporter::ResetSchema
ResetSchema ==
  [fImportBranches |-> <<>>,
   fImportFields |-> <<>>,
   fLeafCountCollections |-> <<>>,
   fImportTransformations |-> <<>>,
   fModel |-> [state |-> "bare", fields |-> <<>>, projected |-> <<>>],
   fEntry |-> "null",
   err |-> NoError]

\* The importer before any PrepareSchema: empty containers, null pointers.
EmptySchema ==
  [ResetSchema EXCEPT !.fModel = [state |-> "null", fields |-> <<>>, projected |-> <<>>]]

Fail(S, msg) == [S EXCEPT !.err = msg]

\* The classification of a branch by its first leaf.
IsLeafList(b) == Len(b.leaves) > 1
IsCountLeaf(b) == b.leaves[1].isRange
IsClass(b) == b.leaves[1].cls = "TLeafElement"
IsCString(b) ==
  /\ ~IsLeafList(b)
  /\ b.leaves[1].cls = "TLeafC"
  /\ b.leaves[1].counter = NoLeaf
  /\ b.leaves[1].countval = 1

\* fieldName and fieldType of leaf l of branch b.
FieldName(b, l) == IF IsLeafList(b) THEN l.name ELSE b.name

FieldType(b, l) ==
  LET base == IF IsClass(b) THEN b.className
              ELSE IF IsCString(b) THEN "std::string" ELSE l.typeName
      kind == IF IsClass(b) THEN "class"
              ELSE IF IsCString(b) THEN "string" ELSE "scalar"
  IN IF l.counter = NoLeaf /\ l.countval > 1
       THEN [kind |-> "array", base |-> base, n |-> l.countval]
       ELSE [kind |-> kind, base |-> base, n |-> 1]

\* A buffer sized by the element count alone.
LeafCountArrayBufferSizeNoWidth(fMaxLength, valueSize) == fMaxLength

\* The size of the read buffer of a leaf-counted array: the count leaf's
\* maximum times the element width.
LeafCountArrayBufferSize(fMaxLength, valueSize) == fMaxLength * valueSize

\* branchBufferSize as leaf l of branch b sets it; the collections are
\* looked up for a leaf-counted array.
BranchBufferSize(b, l, ty, colls) ==
  IF IsCString(b) THEN l.maximum
  ELSE IF IsClass(b) THEN PtrSize * l.countval
  ELSE IF l.counter # NoLeaf
    THEN LeafCountArrayBufferSize(colls[l.counter].fMaxLength, ValueSize(ty))
  ELSE l.offset + ValueSize(ty)

\* An RImportLeafCountCollection as the count-leaf branch creates it.
NewCollection(firstLeaf) ==
  [fMaxLength |-> firstLeaf.maximum,
   fCountVal |-> 0,
   fImportFieldIndexes |-> <<>>,
   fTransformations |-> <<>>,
   fFieldName |-> "",
   frozen |-> FALSE]

\* std::map::emplace: an existing key keeps its value.
Emplace(colls, name, c) ==
  IF name \in DOMAIN colls THEN colls ELSE (name :> c) @@ colls

\* One iteration of the loop over the leaves of branch b; acc carries
\* branchBufferSize and recordItems.
LeafStep(S, b, l, acc) ==
  IF l.cls = "TLeafObject" THEN [S |-> Fail(S, "unsupported: TObject branches"), acc |-> acc]
  ELSE
    LET isLeafCountArray == l.counter # NoLeaf
        ty == FieldType(b, l)
        name == FieldName(b, l)
    IN IF ty.base \notin KnownBases
         THEN [S |-> Fail(S, "unknown type"), acc |-> acc]
       ELSE
         LET size == BranchBufferSize(b, l, ty, S.fLeafCountCollections)
             brIdx == Len(S.fImportBranches)
             flIdx == Len(S.fImportFields)
             owned == IsCString(b) \/ (~IsLeafList(b) /\ isLeafCountArray)
             f == [name |-> name, type |-> ty, fIsClass |-> IsClass(b),
                   fOwnsFieldBuffer |-> owned,
                   fIsInUntypedCollection |-> (~IsLeafList(b) /\ isLeafCountArray),
                   fFieldBuffer |-> IF owned THEN [kind |-> "own", idx |-> flIdx] ELSE NullPtr,
                   val |-> IF owned /\ ~IsCString(b) THEN Zeros(ValueSize(ty)) ELSE <<>>]
             S1 == IF IsCString(b)
                     THEN [S EXCEPT !.fImportTransformations =
                             Append(@, [fImportBranchIdx |-> brIdx, fImportFieldIdx |-> flIdx])]
                     ELSE S
         IN IF IsLeafList(b)
              THEN [S |-> S1,
                    acc |-> [size |-> size, recordItems |-> Append(acc.recordItems, name)]]
            ELSE IF isLeafCountArray
              THEN [S |-> [S1 EXCEPT
                       !.fLeafCountCollections[l.counter].fImportFieldIndexes = Append(@, flIdx),
                       !.fLeafCountCollections[l.counter].fTransformations =
                          Append(@, [fImportBranchIdx |-> brIdx, fImportFieldIdx |-> flIdx,
                                     fNum |-> 0]),
                       !.fImportFields = Append(@, f)],
                    acc |-> [acc EXCEPT !.size = size]]
            ELSE [S |-> [S1 EXCEPT !.fModel.fields = Append(@, name),
                                   !.fImportFields = Append(@, f)],
                  acc |-> [acc EXCEPT !.size = size]]

RECURSIVE LeafLoop(_, _, _, _)
LeafLoop(S, b, k, acc) ==
  IF k > Len(b.leaves) \/ S.err # NoError THEN [S |-> S, acc |-> acc]
  ELSE LET r == LeafStep(S, b, b.leaves[k], acc)
       IN LeafLoop(r.S, b, k + 1, r.acc)

\* The tail of one iteration of the loop over the branches: the record
\* field of a leaf list, the branch buffer, the class lookup, the aliasing
\* of the last field's buffer.
BranchTail(S, b, acc) ==
  LET S1 == IF acc.recordItems # <<>>
              THEN [S EXCEPT
                      !.fImportFields = Append(@,
                          [name |-> b.name,
                           type |-> [kind |-> "record", base |-> "record", n |-> Len(acc.recordItems)],
                           fIsClass |-> FALSE, fOwnsFieldBuffer |-> FALSE,
                           fIsInUntypedCollection |-> FALSE, fFieldBuffer |-> NullPtr,
                           val |-> <<>>]),
                      !.fModel.fields = Append(@, b.name)]
              ELSE S
      ib == [fBranchName |-> b.name, size |-> acc.size, fBranchBuffer |-> Zeros(acc.size)]
      brIdx == Len(S1.fImportBranches)
      last == Len(S1.fImportFields)
  IN IF IsClass(b) /\ ~b.classLoadable THEN Fail(S1, "unable to load class")
     ELSE LET S2 == IF S1.fImportFields[last].fFieldBuffer = NullPtr
                      THEN [S1 EXCEPT !.fImportFields[last].fFieldBuffer =
                              [kind |-> IF IsClass(b) THEN "pointee" ELSE "branch", idx |-> brIdx]]
                      ELSE S1
          IN [S2 EXCEPT !.fImportBranches = Append(@, ib)]

\* One iteration of the loop over the branches.
BranchStep(S, b) ==
  IF IsLeafList(b) /\ IsClass(b) THEN Fail(S, "unsupported: classes in leaf list")
  ELSE IF IsLeafList(b) /\ IsCountLeaf(b)
    THEN Fail(S, "unsupported: count leaf arrays in leaf list")
  ELSE IF IsCountLeaf(b)
    THEN [S EXCEPT !.fLeafCountCollections =
            Emplace(@, b.leaves[1].name, NewCollection(b.leaves[1]))]
  ELSE LET r == LeafLoop(S, b, 1, [size |-> 0, recordItems |-> <<>>])
       IN IF r.S.err # NoError THEN r.S ELSE BranchTail(r.S, b, r.acc)

RECURSIVE BranchLoop(_, _, _)
BranchLoop(S, branches, k) ==
  IF k > Len(branches) \/ S.err # NoError THEN S
  ELSE BranchLoop(BranchStep(S, branches[k]), branches, k + 1)

\* The names of the count-leaf collections in iteration order.
CollectionNames(colls) == SortedNames(DOMAIN colls)

\* The loop over fLeafCountCollections that freezes each collection model,
\* names the collection and adds the projected fields.
RECURSIVE CollectionLoop(_, _, _)
CollectionLoop(S, names, k) ==
  IF k > Len(names) THEN S
  ELSE LET c == S.fLeafCountCollections[names[k]]
           fieldName == "_collection" \o ToString(k - 1)
           members == [j \in 1..Len(c.fImportFieldIndexes) |->
                         S.fImportFields[c.fImportFieldIndexes[j] + 1].name]
       IN CollectionLoop(
            [S EXCEPT !.fLeafCountCollections[names[k]].frozen = TRUE,
                      !.fLeafCountCollections[names[k]].fFieldName = fieldName,
                      !.fModel.fields = Append(@, fieldName),
                      !.fModel.projected = @ \o members \o <<names[k]>>],
            names, k + 1)

\* RNTupleImporter::PrepareSchema on the branches of the source tree.
PrepareSchema(branches) ==
  LET S1 == BranchLoop(ResetSchema, branches, 1)
  IN IF S1.err # NoError THEN S1
     ELSE LET S2 == CollectionLoop(S1, CollectionNames(S1.fLeafCountCollections), 1)
          IN [S2 EXCEPT !.fModel.state = "frozen", !.fEntry = "set"]


\* The six schema members of a PrepareSchema result.
Members(S) ==
  [fImportBranches |-> S.fImportBranches,
   fImportFields |-> S.fImportFields,
   fLeafCountCollections |-> S.fLeafCountCollections,
   fImportTransformations |-> S.fImportTransformations,
   fModel |-> S.fModel,
   fEntry |-> S.fEntry]

\* ------------------------------------------------------- the source data
\* Byte j of element k of the value of branch `name` in entry i: nonzero,
\* and different for different (i, k, j) within the bounds.
SrcByte(name, i, k, j) == 1 + ((NameRank(name) * 64 + i * 16 + k * 4 + j) % 255)

\* Element k (vs bytes) of the array of branch `name` in entry i.
SrcElem(name, i, k, vs) == [j \in 1..vs |-> SrcByte(name, i, k, j - 1)]

\* The C string branch `name` holds in entry i, with its terminating NUL.
SrcString(name, i) == <<SrcByte(name, i, 0, 0), SrcByte(name, i, 0, 1), 0>>

BranchByName(branches, name) ==
  branches[CHOOSE k \in 1..Len(branches) : branches[k].name = name]

\* TTree::GetEntry for one registered branch buffer: what the buffer of
\* import branch ib holds after entry i was read, cv giving the value of
\* every count leaf in that entry.  A leaf-counted array fills its first
\* cv[counter] elements and leaves the rest of the buffer as it was.
ReadBranch(ib, b, i, cv) ==
  LET l == b.leaves[1]
      old == ib.fBranchBuffer
  IN IF IsClass(b) THEN old
     ELSE IF IsCString(b)
       THEN [j \in 1..ib.size |->
               IF j <= Len(SrcString(b.name, i)) THEN SrcString(b.name, i)[j] ELSE old[j]]
     ELSE IF ~IsLeafList(b) /\ l.counter # NoLeaf
       THEN LET vs == ValueSize(FieldType(b, l))
            IN [j \in 1..ib.size |->
                  IF j <= cv[l.counter] * vs
                    THEN SrcByte(b.name, i, (j - 1) \div vs, (j - 1) % vs)
                    ELSE old[j]]
     ELSE [j \in 1..ib.size |-> SrcByte(b.name, i, 0, j - 1)]

\* TTree::GetEntry(idx) on schema S: the count values land in fCountVal,
\* the branch data in the branch buffers.
ReadEntry(S, branches, idx, cv) ==
  [S EXCEPT
     !.fLeafCountCollections =
        [cn \in DOMAIN S.fLeafCountCollections |->
           [S.fLeafCountCollections[cn] EXCEPT !.fCountVal = cv[cn]]],
     !.fImportBranches =
        [k \in 1..Len(S.fImportBranches) |->
           [S.fImportBranches[k] EXCEPT !.fBranchBuffer =
              ReadBranch(S.fImportBranches[k],
                         BranchByName(branches, S.fImportBranches[k].fBranchName), idx, cv)]]]

\* --------------------------------------------------- the transformations
\* The bytes memcpy reads at [off, off + n) of buf; a byte outside the
\* buffer is whatever lies there (g).
ReadBytes(buf, off, n, g) ==
  [j \in 1..n |-> IF off + j <= Len(buf) THEN buf[off + j] ELSE g]

\* The values an out-of-bounds byte may have.
OobBytes == {0, 255}

\* The source offset of the element RLeafArrayTransformation::Transform
\* copies.
ElementOffset(fNum, valueSize) == fNum * valueSize

\* A counter that is never advanced.
NextNumStuck(fNum) == fNum

\* fNum after RLeafArrayTransformation::Transform.
NextNum(fNum) == fNum + 1

\* RLeafArrayTransformation::Transform of transformation number t of the
\* collection `cn`, on schema S.
LeafArrayTransform(S, cn, t, g) ==
  LET tr == S.fLeafCountCollections[cn].fTransformations[t]
      fi == tr.fImportFieldIdx + 1
      valueSize == ValueSize(S.fImportFields[fi].type)
      buf == S.fImportBranches[tr.fImportBranchIdx + 1].fBranchBuffer
  IN [S EXCEPT
        !.fImportFields[fi].val = ReadBytes(buf, ElementOffset(tr.fNum, valueSize), valueSize, g),
        !.fLeafCountCollections[cn].fTransformations[t].fNum = NextNum(tr.fNum)]

RECURSIVE TransformAll(_, _, _, _)
TransformAll(S, cn, t, g) ==
  IF t > Len(S.fLeafCountCollections[cn].fTransformations) THEN S
  ELSE TransformAll(LeafArrayTransform(S, cn, t, g), cn, t + 1, g)

\* The bytes of a C string: up to the first NUL.
RECURSIVE CStr(_)
CStr(buf) == IF buf = <<>> \/ Head(buf) = 0 THEN <<>> ELSE <<Head(buf)>> \o CStr(Tail(buf))

\* RCStringTransformation::Transform of top-level transformation t.
CStringTransform(S, t) ==
  LET tr == S.fImportTransformations[t]
  IN [S EXCEPT !.fImportFields[tr.fImportFieldIdx + 1].val =
        CStr(S.fImportBranches[tr.fImportBranchIdx + 1].fBranchBuffer)]

RECURSIVE StringsAll(_, _)
StringsAll(S, t) ==
  IF t > Len(S.fImportTransformations) THEN S
  ELSE StringsAll(CStringTransform(S, t), t + 1)

\* A reset that leaves the counter as it is.
ResetEntryKeeps(tr) == tr

\* RImportTransformation::ResetEntry of one transformation.
ResetEntry(tr) == [tr EXCEPT !.fNum = 0]

\* The reset loop over the transformations of collection `cn`.
ResetAll(S, cn) ==
  [S EXCEPT !.fLeafCountCollections[cn].fTransformations =
     [t \in 1..Len(@) |-> ResetEntry(@[t])]]

\* What the collection entry of `cn` submits: the value buffers of its
\* member fields, which the entry captured by address.
CollectionEntry(S, cn) ==
  LET idx == S.fLeafCountCollections[cn].fImportFieldIndexes
  IN [j \in 1..Len(idx) |-> S.fImportFields[idx[j] + 1].val]

\* What each array transformation of `cn` is about to read: its counter,
\* the byte range and the size of the buffer read.
Reads(S, cn) ==
  LET trs == S.fLeafCountCollections[cn].fTransformations
  IN [t \in 1..Len(trs) |->
        LET vs == ValueSize(S.fImportFields[trs[t].fImportFieldIdx + 1].type)
        IN [fNum |-> trs[t].fNum,
            from |-> ElementOffset(trs[t].fNum, vs),
            to |-> ElementOffset(trs[t].fNum, vs) + vs,
            size |-> S.fImportBranches[trs[t].fImportBranchIdx + 1].size]]


\* ------------------------------------------------------------ the state
VARIABLES
  tree,            \* fSourceTree: the branches of the source tree
  nTotal,          \* fSourceTree->GetEntries()
  fMaxEntries,     \* the record limit (negative: no limit)
  fIsQuiet,
  pc,              \* "start", "nocreate", "idle", the positions of the
                   \* import loop, and those of the callback-only runs
  createResult,    \* what Create gave: "none", "importer", "failure", "exception"
  fDestFile,       \* "null" or "open"
  destKey,         \* fDestFile->FindKey(fNTupleName) != nullptr
  schema,          \* the six schema members
  prepareResult,   \* "notrun", or the error of this Import's PrepareSchema
  sink,            \* the RPageSinkFile of this Import: "none", "open", "closed"
  ntplWriter,      \* the RNTupleWriter of this Import: "none", "open", "closed"
  fProgressCallback, \* "null" or "default"
  fNbytesNext,     \* of the default callback
  nEntries,        \* the locals of Import
  i,
  collPos,         \* position in fLeafCountCollections (1-based), and l
  l,
  ctr,             \* ctrZippedBytes->GetValueAsInt()
  importResult,    \* "none", "running", "success", "failure", "exception"
  nImports,
  topLog,          \* the entry read last at each top-level Fill of this Import
  recLog,          \* the events since the last GetEntry
  lastNote,        \* the last progress notification and the records submitted then
  lastLineBytes,   \* nbytesWritten at the last periodic status line (0: none yet)
  lastGap,         \* the bytes between the last two periodic lines (-1: none yet)
  cbCalls          \* calls made in a callback-only run

vars ==
  <<tree, nTotal, fMaxEntries, fIsQuiet, pc, createResult, fDestFile, destKey,
    schema, prepareResult, sink, ntplWriter, fProgressCallback, fNbytesNext,
    nEntries, i, collPos, l, ctr, importResult, nImports, topLog, recLog,
    lastNote, lastLineBytes, lastGap, cbCalls>>

sourceVars == <<tree, nTotal, fMaxEntries, fIsQuiet>>
callbackHist == <<lastLineBytes, lastGap>>
loopVars == <<nEntries, i, collPos, l>>

NoNote == [kind |-> "none", bytes |-> 0, n |-> 0, submitted |-> 0]

Event(ev, idx, coll, k, vals, xf) ==
  [ev |-> ev, i |-> idx, coll |-> coll, k |-> k, vals |-> vals, xf |-> xf]

Init ==
  /\ tree \in Trees
  /\ nTotal \in 0..MaxT
  /\ fMaxEntries \in -1..(MaxT + 1)
  /\ fIsQuiet \in BOOLEAN
  /\ pc = "start"
  /\ createResult = "none"
  /\ fDestFile = "null"
  /\ destKey = FALSE
  /\ schema = Members(EmptySchema)
  /\ prepareResult = "notrun"
  /\ sink = "none"
  /\ ntplWriter = "none"
  /\ fProgressCallback = "null"
  /\ fNbytesNext = gUpdateFrequencyBytes
  /\ nEntries = 0
  /\ i = 0
  /\ collPos = 1
  /\ l = 0
  /\ ctr = 0
  /\ importResult = "none"
  /\ nImports = 0
  /\ topLog = <<>>
  /\ recLog = <<>>
  /\ lastNote = NoNote
  /\ lastLineBytes = 0
  /\ lastGap = -1
  /\ cbCalls = 0

\* ------------------------------------------------------ error results
\* What becomes of an RResult<void> that is dropped without being checked
\* (ROOT/RError.hxx): one that holds an error is not swallowed, it is
\* raised as an RException when the temporary is destroyed.
Discard(err) == IF err # NoError THEN "throw" ELSE "continue"

\* ---------------------------------------------------------------- Create
\* RNTupleImporter::SetupDestination: the error returned for a destination
\* file that opens (destOk) or not.
SetupDestination(destOk) == IF destOk THEN NoError ELSE "cannot open dest file"

\* The common tail of both Create overloads: SetupDestination is called
\* and its result dropped; then the importer is returned.
CreateTail(destOk, key) ==
  /\ fDestFile' = IF destOk THEN "open" ELSE "null"
  /\ destKey' = (destOk /\ key)
  /\ IF Discard(SetupDestination(destOk)) = "throw"
       THEN createResult' = "exception" /\ pc' = "nocreate"
       ELSE createResult' = "importer" /\ pc' = "idle"

\* Create(sourceFileName, treeName, destFileName)
CreateFromFile ==
  /\ pc = "start"
  /\ \E srcOk, treeOk, destOk, key \in BOOLEAN :
       IF ~srcOk \/ ~treeOk
         THEN /\ createResult' = "failure"
              /\ pc' = "nocreate"
              /\ UNCHANGED <<fDestFile, destKey>>
         ELSE CreateTail(destOk, key)
  /\ UNCHANGED <<sourceVars, schema, prepareResult, sink, ntplWriter, fProgressCallback,
                 fNbytesNext, loopVars, ctr, importResult, nImports, topLog, recLog,
                 lastNote, callbackHist, cbCalls>>

\* Create(sourceTree, destFileName)
CreateFromTree ==
  /\ pc = "start"
  /\ \E destOk, key \in BOOLEAN : CreateTail(destOk, key)
  /\ UNCHANGED <<sourceVars, schema, prepareResult, sink, ntplWriter, fProgressCallback,
                 fNbytesNext, loopVars, ctr, importResult, nImports, topLog, recLog,
                 lastNote, callbackHist, cbCalls>>

\* ---------------------------------------------------------------- Import
\* An Import that does not look for the key.
KeyCheckSkipped(key) == FALSE

\* The first statement of Import: whether it returns the "already exists"
\* failure.
KeyCheckFails(key) == key

\* A limit that only counts when it is positive.
EntriesToImportPositiveLimit(total, maxEntries) ==
  IF maxEntries > 0 /\ maxEntries < total THEN maxEntries ELSE total

\* nEntries as Import computes it from GetEntries() and fMaxEntries.
EntriesToImport(total, maxEntries) ==
  IF maxEntries >= 0 /\ maxEntries < total THEN maxEntries ELSE total

\* A loop body that fills the top-level entry before the collections.
StageAfterFillFirst(stage) ==
  CASE stage = "read" -> "fill"
    [] stage = "fill" -> "colls"
    [] stage = "strings" -> "loop"

\* The order of the statements of the loop body: the position reached
\* after the row read, after the transformation loops, after the Fill.
StageAfter(stage) ==
  CASE stage = "read" -> "colls"
    [] stage = "strings" -> "fill"
    [] stage = "fill" -> "loop"

\* What every Import starts from: the logs of the previous one are gone.
FreshLogs ==
  /\ topLog' = <<>>
  /\ recLog' = <<>>
  /\ lastNote' = NoNote

\* Import up to the loop: the key check, PrepareSchema (its result
\* dropped), the sink and the writer, the callback, nEntries.
ImportBegin ==
  /\ pc = "idle"
  /\ nImports < MaxImports
  /\ nImports' = nImports + 1
  /\ FreshLogs
  /\ IF KeyCheckFails(destKey)
       THEN /\ importResult' = "failure"
            /\ prepareResult' = "notrun"
            /\ sink' = "none"
            /\ ntplWriter' = "none"
            /\ UNCHANGED <<pc, schema, fProgressCallback, fNbytesNext, loopVars, ctr>>
       ELSE LET S == PrepareSchema(tree)
            IN /\ prepareResult' = S.err
               /\ IF Discard(S.err) = "throw"
                    THEN /\ importResult' = "exception"
                         /\ schema' = Members(S)
                         /\ sink' = "none"
                         /\ ntplWriter' = "none"
                         /\ UNCHANGED <<pc, fProgressCallback, fNbytesNext, loopVars, ctr>>
                    ELSE /\ importResult' = "running"
                         /\ schema' = [Members(S) EXCEPT !.fModel.state = "null"]
                         /\ sink' = "open"
                         /\ ntplWriter' = "open"
                         /\ ctr' = 0
                         /\ fProgressCallback' = IF fIsQuiet THEN "null" ELSE "default"
                         /\ fNbytesNext' = gUpdateFrequencyBytes
                         /\ nEntries' = EntriesToImport(nTotal, fMaxEntries)
                         /\ i' = 0
                         /\ collPos' = 1
                         /\ l' = 0
                         /\ pc' = "loop"
  /\ UNCHANGED <<sourceVars, createResult, fDestFile, destKey, callbackHist, cbCalls>>

\* The count-leaf collections in the order the loop visits them.
Colls == CollectionNames(schema.fLeafCountCollections)

\* fSourceTree->GetEntry(i): every registered address is filled.
GetEntry ==
  /\ pc = "loop"
  /\ i < nEntries
  /\ \E cv \in [DOMAIN schema.fLeafCountCollections -> 0..MaxLen] :
       /\ \A cn \in DOMAIN cv : cv[cn] <= schema.fLeafCountCollections[cn].fMaxLength
       /\ schema' = ReadEntry(schema, tree, i, cv)
  /\ recLog' = <<Event("read", i, "", 0, <<>>, <<>>)>>
  /\ collPos' = 1
  /\ l' = 0
  /\ pc' = StageAfter("read")
  /\ UNCHANGED <<sourceVars, createResult, fDestFile, destKey, prepareResult, sink,
                 ntplWriter, fProgressCallback, fNbytesNext, nEntries, i, ctr,
                 importResult, nImports, topLog, lastNote, callbackHist, cbCalls>>

\* One iteration of the loop over l: every transformation of the
\* collection runs once, then the collection writer is filled.
CollectionElement ==
  /\ pc = "colls"
  /\ collPos <= Len(Colls)
  /\ l < schema.fLeafCountCollections[Colls[collPos]].fCountVal
  /\ \E g \in OobBytes :
       LET cn == Colls[collPos]
           S == TransformAll(schema, cn, 1, g)
       IN /\ schema' = S
          /\ recLog' = Append(recLog,
                         Event("nested", i, cn, l, CollectionEntry(S, cn), Reads(schema, cn)))
  /\ l' = l + 1
  /\ UNCHANGED <<sourceVars, pc, createResult, fDestFile, destKey, prepareResult, sink,
                 ntplWriter, fProgressCallback, fNbytesNext, nEntries, i, collPos, ctr,
                 importResult, nImports, topLog, lastNote, callbackHist, cbCalls>>

\* The end of the loop over l for one collection: its transformations
\* are reset and the next collection is taken.
CollectionReset ==
  /\ pc = "colls"
  /\ collPos <= Len(Colls)
  /\ l >= schema.fLeafCountCollections[Colls[collPos]].fCountVal
  /\ schema' = ResetAll(schema, Colls[collPos])
  /\ recLog' = Append(recLog, Event("reset", i, Colls[collPos], l, <<>>, <<>>))
  /\ collPos' = collPos + 1
  /\ l' = 0
  /\ UNCHANGED <<sourceVars, pc, createResult, fDestFile, destKey, prepareResult, sink,
                 ntplWriter, fProgressCallback, fNbytesNext, nEntries, i, ctr,
                 importResult, nImports, topLog, lastNote, callbackHist, cbCalls>>

\* The loop over fImportTransformations: the C strings are materialized.
StringTransformations ==
  /\ pc = "colls"
  /\ collPos > Len(Colls)
  /\ schema' = StringsAll(schema, 1)
  /\ recLog' = recLog \o
       [t \in 1..Len(schema.fImportTransformations) |->
          Event("string", i, "", t,
                <<schema'.fImportFields[schema.fImportTransformations[t].fImportFieldIdx + 1].val>>,
                <<>>)]
  /\ pc' = StageAfter("strings")
  /\ UNCHANGED <<sourceVars, createResult, fDestFile, destKey, prepareResult, sink,
                 ntplWriter, fProgressCallback, fNbytesNext, loopVars, ctr,
                 importResult, nImports, topLog, lastNote, callbackHist, cbCalls>>

\* The record count Import passes to the periodic Call after entry idx.
CallCount(idx) == idx

\* What the sink's payload counter may grow by while one entry is filled.
FlushSteps == {0, gUpdateFrequencyBytes}

\* ntplWriter->Fill(*fEntry), the periodic Call, ++i.
FillEntry ==
  /\ pc = "fill"
  /\ topLog' = Append(topLog, recLog[1].i)
  /\ recLog' = Append(recLog, Event("top", i, "", 0, <<>>, <<>>))
  /\ \E d \in FlushSteps : ctr' = ctr + d
  /\ IF fProgressCallback = "default"
       THEN LET r == Call(fNbytesNext, ctr')
            IN /\ lastNote' = [kind |-> "call", bytes |-> ctr', n |-> CallCount(i),
                               submitted |-> Len(topLog')]
               /\ fNbytesNext' = r.next
               /\ lastLineBytes' = IF r.print THEN ctr' ELSE lastLineBytes
               /\ lastGap' = IF r.print THEN ctr' - lastLineBytes ELSE lastGap
       ELSE UNCHANGED <<lastNote, fNbytesNext, lastLineBytes, lastGap>>
  /\ i' = i + 1
  /\ pc' = StageAfter("fill")
  /\ UNCHANGED <<sourceVars, createResult, fDestFile, destKey, schema, prepareResult, sink,
                 ntplWriter, fProgressCallback, nEntries, collPos, l,
                 importResult, nImports, cbCalls>>

\* The end of Import: Finish, the success result; the writer and the sink
\* go out of scope, which commits the dataset under its key.
ImportFinish ==
  /\ pc = "loop"
  /\ i >= nEntries
  /\ lastNote' = IF fProgressCallback = "default"
                   THEN [kind |-> "finish", bytes |-> ctr, n |-> nEntries,
                         submitted |-> Len(topLog)]
                   ELSE lastNote
  /\ importResult' = "success"
  /\ sink' = "closed"
  /\ ntplWriter' = "closed"
  /\ destKey' = TRUE
  /\ pc' = "idle"
  /\ UNCHANGED <<sourceVars, createResult, fDestFile, schema, prepareResult,
                 fProgressCallback, fNbytesNext, loopVars, ctr, nImports, topLog,
                 recLog, callbackHist, cbCalls>>

Next ==
  \/ CreateFromFile
  \/ CreateFromTree
  \/ ImportBegin
  \/ GetEntry
  \/ CollectionElement
  \/ CollectionReset
  \/ StringTransformations
  \/ FillEntry
  \/ ImportFinish

Spec == Init /\ [][Next]_vars


\* ------------------------------------------- the default callback alone
\* A default callback driven directly: any non-decreasing sequence of
\* byte counts is passed to Call, then Finish is called.
ByteSteps ==
  {0, gUpdateFrequencyBytes \div 2, gUpdateFrequencyBytes,
   2 * gUpdateFrequencyBytes + gUpdateFrequencyBytes \div 2}

InitCallback ==
  /\ tree = <<ScalarBranch("x", "Int_t")>>
  /\ nTotal = 0
  /\ fMaxEntries = -1
  /\ fIsQuiet = FALSE
  /\ pc = "callback"
  /\ createResult = "none"
  /\ fDestFile = "null"
  /\ destKey = FALSE
  /\ schema = Members(EmptySchema)
  /\ prepareResult = "notrun"
  /\ sink = "none"
  /\ ntplWriter = "none"
  /\ fProgressCallback = "default"
  /\ fNbytesNext = gUpdateFrequencyBytes
  /\ nEntries = 0
  /\ i = 0
  /\ collPos = 1
  /\ l = 0
  /\ ctr = 0
  /\ importResult = "none"
  /\ nImports = 0
  /\ topLog = <<>>
  /\ recLog = <<>>
  /\ lastNote = NoNote
  /\ lastLineBytes = 0
  /\ lastGap = -1
  /\ cbCalls = 0

\* RDefaultProgressCallback::Call(nbytesWritten, neventsWritten)
CallbackCall ==
  /\ pc = "callback"
  /\ cbCalls < MaxCalls
  /\ \E d \in ByteSteps :
       LET nbytesWritten == ctr + d
           r == Call(fNbytesNext, nbytesWritten)
       IN /\ ctr' = nbytesWritten
          /\ fNbytesNext' = r.next
          /\ lastLineBytes' = IF r.print THEN nbytesWritten ELSE lastLineBytes
          /\ lastGap' = IF r.print THEN nbytesWritten - lastLineBytes ELSE lastGap
          /\ lastNote' = [kind |-> "call", bytes |-> nbytesWritten, n |-> cbCalls,
                          submitted |-> cbCalls]
  /\ cbCalls' = cbCalls + 1
  /\ UNCHANGED <<sourceVars, pc, createResult, fDestFile, destKey, schema, prepareResult,
                 sink, ntplWriter, fProgressCallback, loopVars, importResult, nImports,
                 topLog, recLog>>

\* RDefaultProgressCallback::Finish(nbytesWritten, neventsWritten)
CallbackFinish ==
  /\ pc = "callback"
  /\ pc' = "callbackdone"
  /\ lastNote' = [kind |-> "finish", bytes |-> ctr, n |-> cbCalls, submitted |-> cbCalls]
  /\ UNCHANGED <<sourceVars, createResult, fDestFile, destKey, schema, prepareResult,
                 sink, ntplWriter, fProgressCallback, fNbytesNext, loopVars, ctr,
                 importResult, nImports, topLog, recLog, callbackHist, cbCalls>>

NextCallback == CallbackCall \/ CallbackFinish

SpecCallback == InitCallback /\ [][NextCallback]_vars

\* ------------------------------------------------------------ the claims
Min(a, b) == IF a < b THEN a ELSE b

HasEvent(ev) == \E p \in 1..Len(recLog) : recLog[p].ev = ev

\* The positions of recLog that hold an event ev of collection cn.
EventsOf(ev, cn) == {p \in 1..Len(recLog) : recLog[p].ev = ev /\ recLog[p].coll = cn}

\* The count leaf's maximum and the element width of the leaf-counted
\* array branch `name`, read off the source tree.
CounterOf(name) == BranchByName(tree, name).leaves[1].counter
MaximumOf(name) == BranchByName(tree, CounterOf(name)).leaves[1].maximum
WidthOf(name) == BaseSize(BranchByName(tree, name).leaves[1].typeName)

\* The names of the member array fields of collection cn, in order.
MembersOf(cn) ==
  LET idx == schema.fLeafCountCollections[cn].fImportFieldIndexes
  IN [j \in 1..Len(idx) |-> schema.fImportFields[idx[j] + 1].name]

\* C1: if PrepareSchema fails, Import aborts with a failure result: no
\* sink or writer is created, no top-level or nested record is submitted,
\* and Import does not return success.
C1_PrepareFailureAborts ==
  prepareResult \notin {"notrun", NoError} =>
    /\ importResult = "failure"
    /\ sink = "none"
    /\ ntplWriter = "none"
    /\ topLog = <<>>
    /\ recLog = <<>>

\* C2: an Import called while the destination holds the target name
\* returns a failure without running PrepareSchema: the schema members
\* are unchanged, no sink or writer is created, nothing is submitted.
C2_KeyCollisionNoEffect ==
  [][(pc = "idle" /\ nImports' = nImports + 1 /\ destKey) =>
       /\ importResult' = "failure"
       /\ prepareResult' = "notrun"
       /\ schema' = schema
       /\ sink' = "none"
       /\ ntplWriter' = "none"
       /\ topLog' = <<>>
       /\ recLog' = <<>>
       /\ pc' = "idle"]_vars

C2_Witness ==
  /\ importResult = "failure"
  /\ destKey
  /\ nImports = 2
  /\ schema.fImportFields # <<>>
  /\ DOMAIN schema.fLeafCountCollections # {}

\* C3: when the destination file cannot be opened, Create returns a
\* failure result, and no importer exists whose destination file is absent.
C3_CreateFailsWithoutDestination ==
  /\ (createResult # "none" /\ fDestFile = "null") => createResult = "failure"
  /\ pc \notin {"start", "nocreate"} => fDestFile = "open"

\* C4: a successful Import has submitted one top-level record for each of
\* the source entries 0 .. K-1, in this order, and no other, where K is
\* the tree's entry count if the limit is negative and the smaller of the
\* limit and the entry count otherwise; while it runs, the records
\* submitted are a prefix of these.
C4_ImportsFirstK ==
  LET K == IF fMaxEntries < 0 THEN nTotal ELSE Min(fMaxEntries, nTotal)
  IN /\ Len(topLog) <= K
     /\ \A k \in 1..Len(topLog) : topLog[k] = k - 1
     /\ importResult = "success" => Len(topLog) = K

C4_Witness ==
  /\ importResult = "success"
  /\ fMaxEntries >= 1
  /\ fMaxEntries < nTotal
  /\ Len(topLog) = fMaxEntries

\* C5: the nested records submitted for a record and a count-leaf
\* collection are as many as the count value read for the record (once the
\* collection is done), and the k-th carries, for every member array field,
\* element k of that field's source array in that record; with a count of 0
\* there is no nested record and no transformation has run.
C5_NestedRecordsMatchSource ==
  \A cn \in DOMAIN schema.fLeafCountCollections :
    LET c == schema.fLeafCountCollections[cn].fCountVal
        nested == EventsOf("nested", cn)
    IN /\ Cardinality(nested) <= c
       /\ (EventsOf("reset", cn) # {} \/ HasEvent("top")) => Cardinality(nested) = c
       /\ \A p \in nested :
            LET e == recLog[p]
                k == Cardinality({q \in nested : q < p})
            IN /\ e.k = k
               /\ e.i = recLog[1].i
               /\ Len(e.vals) = Len(MembersOf(cn))
               /\ \A j \in 1..Len(e.vals) :
                    e.vals[j] = SrcElem(MembersOf(cn)[j], e.i, k, WidthOf(MembersOf(cn)[j]))
       /\ (recLog # <<>> /\ c = 0) =>
            /\ nested = {}
            /\ \A t \in 1..Len(schema.fLeafCountCollections[cn].fTransformations) :
                 schema.fLeafCountCollections[cn].fTransformations[t].fNum = 0

C5_Witness ==
  /\ HasEvent("top")
  /\ recLog[1].i = 1
  /\ \E cn \in DOMAIN schema.fLeafCountCollections :
       /\ Cardinality(EventsOf("nested", cn)) = 2
       /\ Len(MembersOf(cn)) = 2
  /\ \E cn \in DOMAIN schema.fLeafCountCollections :
       schema.fLeafCountCollections[cn].fCountVal = 0

\* C6: in each iteration of the import loop the row read comes first, the
\* nested records of every collection and the string materializations
\* follow, and the single top-level submission comes last, after all of
\* them; every event of the iteration belongs to the entry that was read.
C6_TopLevelLast ==
  /\ recLog # <<>> =>
       /\ recLog[1].ev = "read"
       /\ \A p \in 2..Len(recLog) : recLog[p].ev # "read" /\ recLog[p].i = recLog[1].i
       /\ \A p \in 1..Len(recLog) : recLog[p].ev = "top" => p = Len(recLog)
       /\ importResult = "running" => recLog[1].i = IF pc = "loop" THEN i - 1 ELSE i
  /\ HasEvent("top") =>
       /\ \A cn \in DOMAIN schema.fLeafCountCollections :
            /\ Cardinality(EventsOf("reset", cn)) = 1
            /\ Cardinality(EventsOf("nested", cn)) = schema.fLeafCountCollections[cn].fCountVal
       /\ Cardinality(EventsOf("string", "")) = Len(schema.fImportTransformations)
       /\ topLog # <<>>
       /\ topLog[Len(topLog)] = recLog[1].i

C6_Witness ==
  /\ HasEvent("top")
  /\ recLog[1].i = 1
  /\ HasEvent("string")
  /\ \E cn \in DOMAIN schema.fLeafCountCollections :
       Cardinality(EventsOf("nested", cn)) = 2

\* C7: every progress notification reports as its record count the number
\* of top-level records submitted so far.
C7_NotificationsCountSubmitted ==
  lastNote.kind # "none" => lastNote.n = lastNote.submitted

\* C8: the element counter of every array transformation is 0 when the
\* processing of a record begins, equals l at the invocation that extracts
\* element l, and is reset once per record and collection, after the last
\* element of the record.
C8_CounterResetPerRecord ==
  \A cn \in DOMAIN schema.fLeafCountCollections :
    LET trs == schema.fLeafCountCollections[cn].fTransformations
        resets == EventsOf("reset", cn)
        current == pc = "colls" /\ collPos <= Len(Colls) /\ Colls[collPos] = cn
    IN /\ \A t \in 1..Len(trs) : trs[t].fNum = IF current THEN l ELSE 0
       /\ \A p \in EventsOf("nested", cn) :
            /\ \A t \in 1..Len(recLog[p].xf) : recLog[p].xf[t].fNum = recLog[p].k
            /\ \A q \in resets : p < q
       /\ Cardinality(resets) <= 1
       /\ HasEvent("top") => Cardinality(resets) = 1

C8_Witness ==
  /\ recLog # <<>>
  /\ recLog[1].i = 1
  /\ \E p \in 1..Len(recLog) :
       recLog[p].ev = "nested" /\ recLog[p].k = 1 /\ recLog[p].xf # <<>>
  /\ \E cn \in DOMAIN schema.fLeafCountCollections : EventsOf("reset", cn) # {}

\* C9: the read buffer of every leaf-counted array branch has the size
\* (maximum of its count leaf) x (element width), and every array-element
\* extraction copies the bytes [l * width, (l + 1) * width) from inside it.
C9_ArrayReadsInsideBuffer ==
  /\ \A cn \in DOMAIN schema.fLeafCountCollections :
       \A t \in 1..Len(schema.fLeafCountCollections[cn].fTransformations) :
         LET tr == schema.fLeafCountCollections[cn].fTransformations[t]
             ib == schema.fImportBranches[tr.fImportBranchIdx + 1]
         IN /\ ib.size = MaximumOf(ib.fBranchName) * WidthOf(ib.fBranchName)
            /\ Len(ib.fBranchBuffer) = ib.size
  /\ \A p \in 1..Len(recLog) :
       recLog[p].ev = "nested" =>
         \A t \in 1..Len(recLog[p].xf) :
           LET r == recLog[p].xf[t]
               w == WidthOf(MembersOf(recLog[p].coll)[t])
           IN /\ r.from = recLog[p].k * w
              /\ r.to = (recLog[p].k + 1) * w
              /\ r.to <= r.size

C9_Witness ==
  \E p \in 1..Len(recLog) :
    /\ recLog[p].ev = "nested"
    /\ recLog[p].k = MaxLen - 1
    /\ Len(recLog[p].xf) = 2
    /\ recLog[p].xf[1].to = recLog[p].xf[1].size

\* C10: a periodic status line is printed only when at least the update
\* threshold has been written since the previous status line (or since
\* the start, for the first line).
C10_LinesAtLeastThresholdApart ==
  lastGap # -1 => lastGap >= gUpdateFrequencyBytes

=============================================================================
